---- MODULE Spec2Model ----
(***************************************************************************)
(* State-machine model of src/main.py (seapy): the batch driver that       *)
(* groups level-2 scan files by year and by day, runs the external l2bin   *)
(* tool once per file, writes the manifest l2b_list.txt, runs the external *)
(* l3bin tool once per day-batch and cleans the scratch directory after    *)
(* every process call.                                                     *)
(*                                                                         *)
(* An input file (a Path object) is an element of Universe; its .name is   *)
(* a sequence of character codes, so that the positional slices name[1:5], *)
(* name[5:8], name[:14], name[:8] and the ordering used by np.sort are     *)
(* computed as the code computes them.  All input files come from one glob *)
(* of one directory (batch_process), so the Path order is the              *)
(* lexicographic order of the names.                                       *)
(***************************************************************************)
EXTENDS Integers, Sequences, FiniteSets, TLC

\* ------------------------------------------------------------------ bounds
\* largest number of files the glob of the input directory returns
MaxFiles == 3
\* number of iterations of the year loop of batch_process that are explored
MaxYears == 1

\* ------------------------------------------------------- program constants
\* range(2012, 2022): first requested calendar year
FirstYear == 2012

\* --------------------------------------------------------- character data
Min(a, b) == IF a < b THEN a ELSE b

Pow10(k) == IF k = 0 THEN 1 ELSE IF k = 1 THEN 10 ELSE IF k = 2 THEN 100
            ELSE IF k = 3 THEN 1000 ELSE IF k = 4 THEN 10000 ELSE 100000

\* the decimal digits of n as character codes, zero padded to width w
Digits(n, w) == [i \in 1..w |-> 48 + ((n \div Pow10(w - i)) % 10)]

\* str(year) for a four-digit year
Str(y) == Digits(y, 4)

\* a scan file name SYYYYDDDWWWWWW<ext>
ScanName(sensor, yr, day, scan, ext) ==
    <<sensor>> \o Digits(yr, 4) \o Digits(day, 3) \o Digits(scan, 6) \o ext

\* ".O" and ".S": two different trailing parts of a name
ExtO == <<46, 79>>
ExtS == <<46, 83>>

\* the files the input directory may hold
Universe == {"a", "b", "c", "d", "e", "f"}

\* the name of each of them: "A" = 65, "T" = 84
Names ==
    [file \in Universe |->
        CASE file = "a" -> ScanName(65, 2012, 1, 1, ExtO)
          [] file = "b" -> ScanName(65, 2012, 2, 1, ExtO)
          [] file = "c" -> ScanName(65, 2012, 2, 1, ExtS)
          [] file = "d" -> ScanName(65, 2012, 2, 2, ExtO)
          [] file = "e" -> ScanName(65, 2013, 1, 1, ExtO)
          [] file = "f" -> ScanName(84, 2012, 1, 1, ExtO)]

\* Path(a).name
Name(file) == Names[file]

\* Python slice s[a:b] of a string (0-based, end exclusive, truncating)
Slice(s, a, b) ==
    IF a >= Min(b, Len(s)) THEN <<>> ELSE SubSeq(s, a + 1, Min(b, Len(s)))

\* Path(a).name[1:5]
YearKey(file) == Slice(Name(file), 1, 5)

\* lambda a: Path(a).name[1:5]
ByYear == [a \in Universe |-> YearKey(a)]

\* Path(a).name[5:8]
DayKey(file) == Slice(Name(file), 5, 8)

\* lambda a: Path(a).name[5:8]
ByDay == [a \in Universe |-> DayKey(a)]

\* f.name[:14] / filename.name[0:14]
ArtifactStem(file) == Slice(Name(file), 0, 14)

\* day_files[0].name[:8]
OutputStem(file) == Slice(Name(file), 0, 8)

\* ".bl2bin"
Bl2binExt == <<46, 98, 108, 50, 98, 105, 110>>

\* f"{f.name[:14]}.bl2bin"
ArtifactName(file) == ArtifactStem(file) \o Bl2binExt

\* glob("*.bl2bin"): the name ends with ".bl2bin"
MatchesBl2bin(n) ==
    /\ Len(n) >= Len(Bl2binExt)
    /\ SubSeq(n, Len(n) - Len(Bl2binExt) + 1, Len(n)) = Bl2binExt

\* ------------------------------------------------------------ np.sort
\* lexicographic order of two strings
LexLess(a, b) ==
    \E k \in 1..(Min(Len(a), Len(b)) + 1) :
        /\ \A i \in 1..(k - 1) : a[i] = b[i]
        /\ IF k > Len(a) THEN k <= Len(b)
           ELSE k <= Len(b) /\ a[k] < b[k]

\* the paths compared by the first 8 characters of their names only
PathLessByStem(f, g) == LexLess(Slice(Name(f), 0, 8), Slice(Name(g), 0, 8))

\* order of two paths of one directory: the order of their names
PathLess(f, g) == LexLess(Name(f), Name(g))

RECURSIVE Insert(_, _)
Insert(x, s) ==
    IF s = <<>> THEN <<x>>
    ELSE IF PathLess(s[1], x) THEN <<s[1]>> \o Insert(x, Tail(s))
    ELSE <<x>> \o s

\* the sort left out: the listing order of the directory is kept
SortSkipped(s) == s

\* insertion sort; the sorted tail is taken as a value t first, so that it
\* is computed once
RECURSIVE Sort(_)
Sort(s) ==
    IF s = <<>> THEN <<>>
    ELSE CHOOSE r \in { Insert(s[1], t) : t \in {Sort(Tail(s))} } : TRUE

\* ------------------------------------------------------ itertools.groupby
\* positions of s where a new group starts: the first, and every key change
\* (key is the key function, a function on the files)
GroupStarts(s, key) ==
    { i \in 1..Len(s) : i = 1 \/ key[s[i]] # key[s[i - 1]] }

\* one group per key, in the order of first occurrence, holding every file
\* of s with that key
GroupByMerged(s, key) ==
    LET firsts == { i \in 1..Len(s) : \A j \in 1..(i - 1) : key[s[j]] # key[s[i]] }
        n      == Cardinality(firsts)
        kth(k) == CHOOSE i \in firsts : Cardinality({j \in firsts : j < i}) = k - 1
    IN  [k \in 1..n |-> SelectSeq(s, LAMBDA x : key[x] = key[s[kth(k)]])]

\* [list(i) for _, i in groupby(s, key)]; the list s is taken as a value t
\* first, so that it is computed once
GroupBy(s, key) ==
    LET groups(t) ==
            LET starts == GroupStarts(t, key)
                n      == Cardinality(starts)
                kth(k) == CHOOSE i \in starts : Cardinality({j \in starts : j < i}) = k - 1
                end(k) == IF k = n THEN Len(t) ELSE kth(k + 1) - 1
            IN  [k \in 1..n |-> SubSeq(t, kth(k), end(k))]
    IN  CHOOSE g \in { groups(t) : t \in {s} } : TRUE


\* ------------------------------------------------------------------ state
VARIABLES
    inputDir,       \* the files that exist in requested_files/modis
    filenames,      \* batch_process: list(p.glob("*.nc"))
    pc,             \* position of the single control flow
    year,           \* batch_process: the loop variable of range(2012, 2022)
    yearly_files,   \* year_process: the year-groups
    yi,             \* year_process: index of year_files in yearly_files
    daily_files,    \* process: the day-batches of the current year-group
    di,             \* process: index of day_files in daily_files
    fi,             \* l2bin: index of filename in filenames (the day-batch)
    scratchExists,  \* whether the directory l2bin_output exists
    scratch,        \* the *.bl2bin files of l2bin_output: name -> source file
    manifest,       \* l2bin_output / "l2b_list.txt"
    outDirs,        \* the directories l3bin/daily/<sensor>/<year> that exist
    outputs,        \* the temporal output files that exist
    removed,        \* names deleted by the cleanup that ran last
    log             \* the tool invocations and file operations so far

vars == <<inputDir, filenames, pc, year, yearly_files, yi, daily_files, di, fi,
          scratchExists, scratch, manifest, outDirs, outputs, removed, log>>

\* Path(filenames[0]).parent / "l2bin", for files of requested_files/modis
L2binOutput == "requested_files/modis/l2bin"

\* a manifest line: f"{path / file}"
FullPath(n) == [dir |-> L2binOutput, name |-> n]

NoFile == [exists |-> FALSE, lines |-> <<>>]

\* Path("l3bin") / "daily" / sensor / str(year)
L3binOutput(sensor, y) == [sensor |-> sensor, year |-> Str(y)]

\* the output named after the last file of the day-batch
L3binOutputFileOfLast(sensor, y, day_files, product) ==
    [sensor |-> sensor, year |-> Str(y),
     stem |-> Slice(Name(day_files[Len(day_files)]), 0, 8),
     product |-> product]

\* the output named after the day key name[5:8] of the first file only
L3binOutputFileByDay(sensor, y, day_files, product) ==
    [sensor |-> sensor, year |-> Str(y),
     stem |-> DayKey(day_files[1]), product |-> product]

\* l3bin_output / f"{day_files[0].name[:8]}_{product}.nc"
L3binOutputFile(sensor, y, day_files, product) ==
    [sensor |-> sensor, year |-> Str(y),
     stem |-> OutputStem(day_files[1]), product |-> product]

NoOut == [sensor |-> "", year |-> <<>>, stem |-> <<>>, product |-> ""]

Event(op, files, artifact, out) ==
    [op |-> op, yr |-> year, yg |-> yi, dg |-> di,
     files |-> files, artifact |-> artifact, out |-> out]

\* the listings of the directory content S that are explored: every file
\* once, in ascending or in descending order of the paths
Listings(S) ==
    { s \in [1..Cardinality(S) -> S] :
        \/ \A i, j \in 1..Cardinality(S) : i < j => PathLess(s[i], s[j])
        \/ \A i, j \in 1..Cardinality(S) : i < j => PathLess(s[j], s[i]) }

\* the results of p.glob("*.nc") that are explored
Inputs ==
    UNION { Listings(S) : S \in { T \in SUBSET Universe : Cardinality(T) <= MaxFiles } }

\* the state when batch_process has listed the directory as one of listings
InitFrom(listings) ==
    /\ filenames \in listings
    /\ inputDir = { filenames[i] : i \in 1..Len(filenames) }
    /\ pc = "batch"
    /\ year = FirstYear
    /\ yearly_files = <<>>
    /\ yi = 1
    /\ daily_files = <<>>
    /\ di = 1
    /\ fi = 1
    /\ scratchExists = FALSE
    /\ scratch = << >>
    /\ manifest = NoFile
    /\ outDirs = {}
    /\ outputs = {}
    /\ removed = {}
    /\ log = <<>>

Init == InitFrom(Inputs)

\* --------------------------------------------------------------- actions
\* batch_process: one iteration of the year loop calls year_process
BatchProcess ==
    /\ pc = "batch"
    /\ year < FirstYear + MaxYears
    /\ yearly_files' = GroupBy(Sort(filenames), ByYear)
    /\ yi' = 1
    /\ pc' = "year"
    /\ UNCHANGED <<inputDir, filenames, year, daily_files, di, fi, scratchExists,
                   scratch, manifest, outDirs, outputs, removed, log>>

\* batch_process: the year loop is exhausted
BatchDone ==
    /\ pc = "batch"
    /\ year >= FirstYear + MaxYears
    /\ pc' = "done"
    /\ UNCHANGED <<inputDir, filenames, year, yearly_files, yi, daily_files, di, fi,
                   scratchExists, scratch, manifest, outDirs, outputs,
                   removed, log>>

\* year_process: the next year-group is handed to process, which groups it
Process ==
    /\ pc = "year"
    /\ yi <= Len(yearly_files)
    /\ daily_files' = GroupBy(Sort(yearly_files[yi]), ByDay)
    /\ di' = 1
    /\ pc' = "day"
    /\ UNCHANGED <<inputDir, filenames, year, yearly_files, yi, fi, scratchExists,
                   scratch, manifest, outDirs, outputs, removed, log>>

\* year_process: no year-group is left; back in the loop of batch_process
YearProcessReturn ==
    /\ pc = "year"
    /\ yi > Len(yearly_files)
    /\ year' = year + 1
    /\ pc' = "batch"
    /\ UNCHANGED <<inputDir, filenames, yearly_files, yi, daily_files, di, fi,
                   scratchExists, scratch, manifest, outDirs, outputs,
                   removed, log>>

\* process: the next day-batch enters l2bin, which creates out_dir if absent
DayBatch ==
    /\ pc = "day"
    /\ di <= Len(daily_files)
    /\ scratchExists' = TRUE
    /\ fi' = 1
    /\ pc' = "l2bin"
    /\ UNCHANGED <<inputDir, filenames, year, yearly_files, yi, daily_files, di,
                   scratch, manifest, outDirs, outputs, removed, log>>

\* the loop over the day-batches expecting one batch more than there are
DaysDoneOffByOne ==
    /\ pc = "day"
    /\ di > Len(daily_files) + 1
    /\ pc' = "cleanup"
    /\ UNCHANGED <<inputDir, filenames, year, yearly_files, yi, daily_files, di, fi,
                   scratchExists, scratch, manifest, outDirs, outputs,
                   removed, log>>

\* process: no day-batch is left
DaysDone ==
    /\ pc = "day"
    /\ di > Len(daily_files)
    /\ pc' = "cleanup"
    /\ UNCHANGED <<inputDir, filenames, year, yearly_files, yi, daily_files, di, fi,
                   scratchExists, scratch, manifest, outDirs, outputs,
                   removed, log>>

\* the scratch directory after l2bin wrote (ok) or did not write its ofile
AfterL2bin(dir, f, ok) ==
    IF ok
    THEN [n \in DOMAIN dir \cup {ArtifactName(f)} |->
             IF n = ArtifactName(f) THEN f ELSE dir[n]]
    ELSE dir

\* l2bin leaving its loop after the first file of the day-batch
L2binFirstOnly(ok) ==
    /\ pc = "l2bin"
    /\ LET f == daily_files[di][fi] IN
          /\ scratch' = AfterL2bin(scratch, f, ok)
          /\ log' = Append(log, Event("l2bin", <<f>>, ArtifactName(f), NoOut))
    /\ fi' = fi
    /\ pc' = "list"
    /\ removed' = {}
    /\ UNCHANGED <<inputDir, filenames, year, yearly_files, yi, daily_files, di,
                   scratchExists, manifest, outDirs, outputs>>

\* l2bin running the tool again on the same file when it failed
L2binRetry(ok) ==
    /\ pc = "l2bin"
    /\ LET f == daily_files[di][fi] IN
          /\ scratch' = AfterL2bin(scratch, f, ok)
          /\ log' = Append(log, Event("l2bin", <<f>>, ArtifactName(f), NoOut))
    /\ IF ~ok
       THEN fi' = fi /\ pc' = "l2bin"
       ELSE IF fi < Len(daily_files[di])
            THEN fi' = fi + 1 /\ pc' = "l2bin"
            ELSE fi' = fi /\ pc' = "list"
    /\ removed' = {}
    /\ UNCHANGED <<inputDir, filenames, year, yearly_files, yi, daily_files, di,
                   scratchExists, manifest, outDirs, outputs>>

\* l2bin: one subprocess.run of the external tool; its exit is not inspected
L2bin(ok) ==
    /\ pc = "l2bin"
    /\ LET f == daily_files[di][fi] IN
          /\ scratch' = AfterL2bin(scratch, f, ok)
          /\ log' = Append(log, Event("l2bin", <<f>>, ArtifactName(f), NoOut))
    /\ IF fi < Len(daily_files[di])
       THEN fi' = fi + 1 /\ pc' = "l2bin"
       ELSE fi' = fi /\ pc' = "list"
    /\ removed' = {}
    /\ UNCHANGED <<inputDir, filenames, year, yearly_files, yi, daily_files, di,
                   scratchExists, manifest, outDirs, outputs>>

\* the names handed to write_file_list
Expected(day_files) == [i \in 1..Len(day_files) |-> ArtifactName(day_files[i])]

\* every name listed, whether or not its file exists
FileListUnfiltered(dir, names) ==
    [i \in 1..Len(names) |-> FullPath(names[i])]

\* write_file_list: the lines written for the names, given the directory
FileList(dir, names) ==
    LET present == SelectSeq(names, LAMBDA n : n \in DOMAIN dir)
    IN  [i \in 1..Len(present) |-> FullPath(present[i])]

\* the manifest opened for appending: the lines of earlier batches stay
WriteFileListAppend ==
    /\ pc = "list"
    /\ manifest' = [exists |-> TRUE,
                    lines |-> manifest.lines
                                \o FileList(scratch, Expected(daily_files[di]))]
    /\ log' = Append(log, Event("list", daily_files[di], <<>>, NoOut))
    /\ pc' = "l3bin"
    /\ UNCHANGED <<inputDir, filenames, year, yearly_files, yi, daily_files, di, fi,
                   scratchExists, scratch, outDirs, outputs, removed>>

\* the manifest created only when there is a line to write
WriteFileListLazy ==
    /\ pc = "list"
    /\ LET lines == FileList(scratch, Expected(daily_files[di])) IN
          manifest' = IF lines = <<>> THEN manifest
                      ELSE [exists |-> TRUE, lines |-> lines]
    /\ log' = Append(log, Event("list", daily_files[di], <<>>, NoOut))
    /\ pc' = "l3bin"
    /\ UNCHANGED <<inputDir, filenames, year, yearly_files, yi, daily_files, di, fi,
                   scratchExists, scratch, outDirs, outputs, removed>>

\* write_file_list(l2bin_output, [...]): open(mode='w'), write, close
WriteFileList ==
    /\ pc = "list"
    /\ manifest' = [exists |-> TRUE,
                    lines |-> FileList(scratch, Expected(daily_files[di]))]
    /\ log' = Append(log, Event("list", daily_files[di], <<>>, NoOut))
    /\ pc' = "l3bin"
    /\ UNCHANGED <<inputDir, filenames, year, yearly_files, yi, daily_files, di, fi,
                   scratchExists, scratch, outDirs, outputs, removed>>

\* the scratch artifacts reclaimed after every day-batch
L3binThenReclaim(ok) ==
    /\ pc = "l3bin"
    /\ LET out == L3binOutputFile("modis", year, daily_files[di], "chlor_a") IN
          /\ outDirs' = outDirs \cup {L3binOutput("modis", year)}
          /\ outputs' = IF ok THEN outputs \cup {out} ELSE outputs
          /\ log' = Append(log, Event("l3bin", daily_files[di], <<>>, out))
    /\ scratch' = << >>
    /\ di' = di + 1
    /\ pc' = "day"
    /\ UNCHANGED <<inputDir, filenames, year, yearly_files, yi, daily_files, fi,
                   scratchExists, manifest, removed>>

\* l3bin: makedirs(dirname(out_name)), then one run of the external tool
L3bin(ok) ==
    /\ pc = "l3bin"
    /\ LET out == L3binOutputFile("modis", year, daily_files[di], "chlor_a") IN
          /\ outDirs' = outDirs \cup {L3binOutput("modis", year)}
          /\ outputs' = IF ok THEN outputs \cup {out} ELSE outputs
          /\ log' = Append(log, Event("l3bin", daily_files[di], <<>>, out))
    /\ di' = di + 1
    /\ pc' = "day"
    /\ UNCHANGED <<inputDir, filenames, year, yearly_files, yi, daily_files, fi,
                   scratchExists, scratch, manifest, removed>>

\* only the artifacts of the last day-batch reclaimed
ReclaimedOfLastDay(dir) ==
    { n \in DOMAIN dir :
        \E f \in Universe :
            /\ n = ArtifactName(f)
            /\ \E i \in 1..Len(daily_files[Len(daily_files)]) :
                  daily_files[Len(daily_files)][i] = f }

\* no artifact reclaimed, only the manifest removed
ReclaimedNone(dir) == {}

\* the files the cleanup of process removes from the scratch directory
Reclaimed(dir) == { n \in DOMAIN dir : MatchesBl2bin(n) }

\* the cleanup run on the directory of the input files instead of l2bin_output
CleanupInputDirectory ==
    /\ pc = "cleanup"
    /\ inputDir' = {}
    /\ removed' = {}
    /\ manifest' = NoFile
    /\ log' = Append(log, Event("cleanup", <<>>, <<>>, NoOut))
    /\ IF manifest.exists
       THEN yi' = yi + 1 /\ pc' = "year"
       ELSE yi' = yi /\ pc' = "crashed"
    /\ UNCHANGED <<filenames, year, yearly_files, daily_files, di, fi,
                   scratchExists, scratch, outDirs, outputs>>

\* process: remove every *.bl2bin of l2bin_output, then the manifest;
\* os.remove of a missing manifest raises and ends the program
Cleanup ==
    /\ pc = "cleanup"
    /\ LET gone == Reclaimed(scratch) IN
          /\ scratch' = [n \in DOMAIN scratch \ gone |-> scratch[n]]
          /\ removed' = gone
    /\ manifest' = NoFile
    /\ log' = Append(log, Event("cleanup", <<>>, <<>>, NoOut))
    /\ IF manifest.exists
       THEN yi' = yi + 1 /\ pc' = "year"
       ELSE yi' = yi /\ pc' = "crashed"
    /\ UNCHANGED <<inputDir, filenames, year, yearly_files, daily_files, di, fi,
                   scratchExists, outDirs, outputs>>

Next ==
    \/ BatchProcess
    \/ BatchDone
    \/ Process
    \/ YearProcessReturn
    \/ DayBatch
    \/ DaysDone
    \/ \E ok \in BOOLEAN : L2bin(ok)
    \/ WriteFileList
    \/ \E ok \in BOOLEAN : L3bin(ok)
    \/ Cleanup

Spec == Init /\ [][Next]_vars

\* the single control flow takes its next step whenever it has one: every
\* call of an external tool returns, and nothing else can hold a step back
SpecLive == Init /\ [][Next]_vars /\ WF_vars(Next)

\* ------------------------------------------- any listing order, fixed tools
\* every listing of the directory content S, in any order
AnyOrder(S) ==
    { s \in [1..Cardinality(S) -> S] :
        \A i, j \in 1..Cardinality(S) : i # j => s[i] # s[j] }

InputsAnyOrder ==
    UNION { AnyOrder(S) : S \in { T \in SUBSET Universe : Cardinality(T) <= MaxFiles } }

InitAnyOrder == InitFrom(InputsAnyOrder)

\* the steps of the program when both external tools succeed on every call
NextToolsSucceed ==
    \/ BatchProcess
    \/ BatchDone
    \/ Process
    \/ YearProcessReturn
    \/ DayBatch
    \/ DaysDone
    \/ L2bin(TRUE)
    \/ WriteFileList
    \/ L3bin(TRUE)
    \/ Cleanup

\* the runs from any listing order with tools that behave the same way
SpecAnyOrder == InitAnyOrder /\ [][NextToolsSucceed]_vars


\* ============================================================== claims
Range(s) == { s[i] : i \in 1..Len(s) }

RECURSIVE Flatten(_)
Flatten(groups) ==
    IF groups = <<>> THEN <<>> ELSE groups[1] \o Flatten(Tail(groups))

\* strictly ascending in the order of the paths
Ascending(s) == \A i, j \in 1..Len(s) : i < j => PathLess(s[i], s[j])

\* groups is what sort-then-group must return for input under key
GroupingLaw(groups, input, key) ==
    /\ \A g \in 1..Len(groups) : groups[g] # <<>>
    /\ LET flat == Flatten(groups) IN
          /\ Ascending(flat)
          /\ Len(flat) = Len(input)
          /\ Range(flat) = Range(input)
    /\ \A g \in 1..Len(groups) : \A i, j \in 1..Len(groups[g]) :
          key[groups[g][i]] = key[groups[g][j]]
    /\ \A g \in 1..(Len(groups) - 1) :
          key[groups[g][1]] # key[groups[g + 1][1]]

\* C1: the sort-then-group step of year_process (key name[1:5]) and of
\* process (key name[5:8]) returns non-empty groups whose concatenation is
\* exactly the sorted input, whose members share one key within a group and
\* whose adjacent groups differ in key.  Stated where the step has just
\* returned: at the head of the loop over its groups.
C1_GroupingLaw ==
    /\ (pc = "year" /\ yi = 1) =>
          GroupingLaw(yearly_files, filenames, ByYear)
    /\ (pc = "day" /\ di = 1) =>
          GroupingLaw(daily_files, yearly_files[yi], ByDay)

\* C1 witness: an unsorted listing was grouped into two day-batches, the
\* second of two files.
C1_Witness ==
    /\ pc = "day"
    /\ di = 1
    /\ ~Ascending(filenames)
    /\ Len(daily_files) = 2
    /\ Len(daily_files[2]) = 2


\* ---------------------------------------------------------------- the log
Spatial(i)  == log[i].op = "l2bin"
Listing(i)  == log[i].op = "list"
Temporal(i) == log[i].op = "l3bin"
Staged(i)   == log[i].op \in {"l2bin", "list", "l3bin"}

\* the day-batch an event belongs to: loop year, year-group, day-group
BatchOf(i) == <<log[i].yr, log[i].yg, log[i].dg>>

BatchBefore(b, c) ==
    \/ b[1] < c[1]
    \/ b[1] = c[1] /\ b[2] < c[2]
    \/ b[1] = c[1] /\ b[2] = c[2] /\ b[3] < c[3]

\* the embedded year and day-of-year of a file: name[1:8]
EmbeddedDay(file) == Slice(Name(file), 1, 8)

\* C2: over a whole run, files with the same embedded year and day-of-year
\* are binned in one single day-batch and feed exactly one temporal output:
\* no two temporal invocations hold files of the same day, and no file is
\* fed to two output paths.
C2_OneBatchPerDay ==
    /\ \A i, j \in 1..Len(log) :
          (i < j /\ Temporal(i) /\ Temporal(j)) =>
              \A f \in Range(log[i].files), g \in Range(log[j].files) :
                  EmbeddedDay(f) # EmbeddedDay(g)
    /\ \A i, j \in 1..Len(log) :
          (i < j /\ Temporal(i) /\ Temporal(j)
             /\ Range(log[i].files) \cap Range(log[j].files) # {}) =>
              log[i].out = log[j].out
    /\ \A i, j \in 1..Len(log) :
          (Spatial(i) /\ Spatial(j)
             /\ EmbeddedDay(log[i].files[1]) = EmbeddedDay(log[j].files[1])) =>
              BatchOf(i) = BatchOf(j)

Phase(i) == CASE Spatial(i) -> 1 [] Listing(i) -> 2 [] Temporal(i) -> 3

\* C3: within a day-batch every spatial invocation precedes the manifest
\* write, which directly precedes the temporal invocation; the manifest is
\* written only after the spatial invocation of every file of the batch;
\* and a batch's events start only after the temporal invocation of every
\* earlier batch.  Stated for the newest log entry j against every earlier
\* entry: the log grows by appending only, so every entry has been newest.
C3_StageOrder ==
    LET j == Len(log) IN
    (j > 0 /\ Staged(j)) =>
        /\ \A i \in 1..(j - 1) :
              Staged(i) =>
                  IF BatchOf(i) = BatchOf(j)
                  THEN Phase(i) < Phase(j) \/ (Spatial(i) /\ Spatial(j))
                  ELSE /\ BatchBefore(BatchOf(i), BatchOf(j))
                       /\ \E k \in i..(j - 1) :
                             Temporal(k) /\ BatchOf(k) = BatchOf(i)
        /\ Listing(j) =>
              \A f \in Range(log[j].files) :
                  \E i \in 1..(j - 1) :
                      /\ Spatial(i)
                      /\ BatchOf(i) = BatchOf(j)
                      /\ log[i].files = <<f>>
        /\ Temporal(j) =>
              /\ j > 1
              /\ Listing(j - 1)
              /\ BatchOf(j - 1) = BatchOf(j)
              /\ log[j - 1].files = log[j].files

\* C3 witness: the first spatial invocation of the second day-batch has
\* returned, right after the temporal invocation of the first day-batch.
C3_Witness ==
    /\ pc = "l2bin"
    /\ di = 2
    /\ fi = 2
    /\ Len(log) >= 4
    /\ Temporal(Len(log) - 1)
    /\ Spatial(Len(log))

\* number of log entries of a kind made by the year_process call of year y
CountIn(y, op) ==
    Cardinality({ i \in 1..Len(log) : log[i].yr = y /\ log[i].op = op })

\* the day-groups of a year_process call, counted on its sorted input: a
\* group starts at the first file and wherever name[1:5] or name[5:8] changes
NumDayGroups ==
    LET s == Flatten(yearly_files) IN
    Cardinality({ i \in 1..Len(s) :
        \/ i = 1
        \/ YearKey(s[i]) # YearKey(s[i - 1])
        \/ DayKey(s[i]) # DayKey(s[i - 1]) })

\* C4: a completed year_process call has invoked the spatial tool exactly
\* once per input file and the temporal tool exactly once per day-group,
\* and every temporal output path embeds the first 8 characters of the name
\* of the first file of its own day-group.
C4_InvocationCounts ==
    /\ pc = "batch" =>
          \A y \in FirstYear..(year - 1) :
              /\ \A f \in Range(filenames) :
                    Cardinality({ i \in 1..Len(log) :
                        log[i].yr = y /\ Spatial(i)
                            /\ log[i].files = <<f>> }) = 1
              /\ CountIn(y, "l2bin") = Len(filenames)
              /\ CountIn(y, "l3bin") = NumDayGroups
    /\ LET j == Len(log) IN
          (j > 0 /\ Temporal(j)) =>
              log[j].out.stem = Slice(Name(log[j].files[1]), 0, 8)

\* C4 witness: a call over three files in two day-groups has returned.
C4_Witness ==
    /\ pc = "batch"
    /\ year = FirstYear + 1
    /\ Len(filenames) = 3
    /\ CountIn(FirstYear, "l3bin") = 2
    /\ CountIn(FirstYear, "l2bin") = 3

\* the names requested from write_file_list for the current day-batch
Requested ==
    [i \in 1..Len(daily_files[di]) |->
        Slice(Name(daily_files[di][i]), 0, 14) \o Bl2binExt]

\* the positions of Requested whose file exists in the scratch directory
Existing == { i \in 1..Len(Requested) : Requested[i] \in DOMAIN scratch }

\* C5: after write_file_list the manifest exists and holds exactly the full
\* paths of the requested names whose file exists, one line each, in the
\* order of the request; missing names are omitted, nothing else is
\* written and nothing of an earlier manifest is kept.
C5_ManifestContent ==
    pc = "l3bin" =>
        /\ manifest.exists
        /\ Len(manifest.lines) = Cardinality(Existing)
        /\ \A i \in Existing :
              manifest.lines[Cardinality({ j \in Existing : j <= i })]
                  = [dir |-> L2binOutput, name |-> Requested[i]]

\* C5 witness: the manifest of a second day-batch of two files was written
\* while one of its artifacts is missing, one exists, and an artifact of the
\* first day-batch is still in the scratch directory.
C5_Witness ==
    /\ pc = "l3bin"
    /\ di = 2
    /\ Len(Requested) = 2
    /\ Cardinality(Existing) = 1
    /\ \E n \in DOMAIN scratch : n \notin Range(Requested)


\* C6: whenever a process call has completed, the scratch directory holds
\* no *.bl2bin file and the manifest l2b_list.txt does not exist, whatever
\* the external tools produced.
C6_ScratchReclaimed ==
    (pc = "year" /\ yi > 1) =>
        /\ \A n \in DOMAIN scratch : ~MatchesBl2bin(n)
        /\ ~manifest.exists

\* C6 witness: a process call over two day-batches has just completed and
\* its cleanup deleted artifacts.
C6_Witness ==
    /\ pc = "year"
    /\ yi > 1
    /\ Len(daily_files) = 2
    /\ removed # {}

\* C7: the <year> directory of every temporal output path is the year
\* embedded in the names of the files of its day-batch, and over a whole
\* run one day-batch (one set of files) gets exactly one output path.
C7_YearDirectory ==
    /\ \A i \in 1..Len(log) :
          Temporal(i) =>
              \A f \in Range(log[i].files) : log[i].out.year = YearKey(f)
    /\ \A i, j \in 1..Len(log) :
          (Temporal(i) /\ Temporal(j) /\ log[i].files = log[j].files) =>
              log[i].out = log[j].out

\* C8: when the first spatial invocation of a year-group starts, every
\* earlier year-group is finished and reclaimed: the newest log entry, if
\* any, is a cleanup, the scratch directory holds no artifact and the
\* manifest does not exist.
C8_YearGroupsIsolated ==
    (pc = "l2bin" /\ di = 1 /\ fi = 1) =>
        /\ DOMAIN scratch = {}
        /\ ~manifest.exists
        /\ log # <<>> => log[Len(log)].op = "cleanup"

\* C8 witness: the second year-group of a call is about to start its first
\* spatial invocation, and the cleanup of the first deleted artifacts.
C8_Witness ==
    /\ pc = "l2bin"
    /\ di = 1
    /\ fi = 1
    /\ yi = 2
    /\ removed # {}

\* what one day-batch contributes to the log, whatever the tools return
BatchSchedule(day_files) ==
    [i \in 1..Len(day_files) |-> <<"l2bin", <<day_files[i]>>>>]
        \o << <<"list", day_files>>, <<"l3bin", day_files>> >>

\* what one process call contributes
GroupSchedule(year_files) ==
    LET days == GroupBy(Sort(year_files), ByDay) IN
    Flatten([k \in 1..Len(days) |-> BatchSchedule(days[k])])
        \o << <<"cleanup", <<>>>> >>

\* what one year_process call contributes
CallSchedule(files) ==
    LET groups == GroupBy(Sort(files), ByYear) IN
    Flatten([g \in 1..Len(groups) |-> GroupSchedule(groups[g])])

\* the whole run, for every input: pairs <<input, schedule>>
Schedules ==
    { <<files, Flatten([y \in 1..MaxYears |-> CallSchedule(files)])>> :
        files \in Inputs }

Schedule == (CHOOSE p \in Schedules : p[1] = filenames)[2]

\* C9: tool failures never stop or alter the control flow: under every
\* combination of outcomes the program never ends in an error, each log
\* entry is the next step of the one outcome-independent schedule (every
\* file once per process call, a manifest and a temporal invocation for
\* every day-batch, a cleanup per year-group), and the run ends only when
\* that schedule is complete.
C9_FailuresSwallowed ==
    LET schedule == Schedule IN
    /\ pc # "crashed"
    /\ Len(log) <= Len(schedule)
    /\ log # <<>> =>
          <<log[Len(log)].op, log[Len(log)].files>> = schedule[Len(log)]
    /\ pc = "done" => Len(log) = Len(schedule)

\* C9 witness: the second day-batch is reached although every spatial
\* invocation and the temporal invocation of the first failed, its
\* manifest being empty.
C9_Witness ==
    /\ pc = "day"
    /\ di = 2
    /\ di <= Len(daily_files)
    /\ manifest.exists
    /\ manifest.lines = <<>>
    /\ outputs = {}
    /\ log[Len(log)].op = "l3bin"

\* the temporal invocation of the last day-batch of the partition returned
LastTemporalReturned ==
    /\ log # <<>>
    /\ log[Len(log)].op = "l3bin"
    /\ BatchOf(Len(log)) = <<year, yi, Len(daily_files)>>

\* C10: within a year-partition call, a scratch artifact or the manifest is
\* deleted only by a step taken after the temporal invocation of the last
\* day-batch of that partition has returned, never between two day-batches.
C10_NoEarlyDeletion ==
    [][ ((\E n \in DOMAIN scratch : n \notin DOMAIN scratch')
            \/ (manifest.exists /\ ~manifest'.exists))
        => LastTemporalReturned ]_vars

\* C10 witness: the cleanup is about to run while the artifact of a file of
\* the first of two day-batches is still in the scratch directory.
C10_Witness ==
    /\ pc = "cleanup"
    /\ Len(daily_files) = 2
    /\ \E n \in DOMAIN scratch : scratch[n] \in Range(daily_files[1])


\* C11: no step deletes an input file or a temporal output file (nor an
\* output directory); the only files a step removes are files of the
\* scratch directory whose name matches *.bl2bin, and the manifest.
C11_OnlyScratchRemoved ==
    [][ /\ inputDir' = inputDir
        /\ outputs \subseteq outputs'
        /\ outDirs \subseteq outDirs'
        /\ \A n \in DOMAIN scratch :
              n \notin DOMAIN scratch' => MatchesBl2bin(n) ]_vars

\* C11 witness: a cleanup has just deleted artifacts while the input files
\* and a temporal output written before it are still there.
C11_Witness ==
    /\ pc = "year"
    /\ yi > 1
    /\ removed # {}
    /\ outputs # {}
    /\ inputDir = Range(filenames)
    /\ inputDir # {}

\* ----------------------------------------------------------------- C12
\* what the code does for one day-batch in the loop year y, as entries
\* <<op, year, files, artifact, output>>
InvocationsOfBatch(y, day_files) ==
    [i \in 1..Len(day_files) |->
        <<"l2bin", y, <<day_files[i]>>, ArtifactName(day_files[i]), NoOut>>]
        \o << <<"list", y, day_files, <<>>, NoOut>>,
               <<"l3bin", y, day_files, <<>>,
                 L3binOutputFile("modis", y, day_files, "chlor_a")>> >>

InvocationsOfGroup(y, year_files) ==
    LET days == GroupBy(Sort(year_files), ByDay) IN
    Flatten([k \in 1..Len(days) |-> InvocationsOfBatch(y, days[k])])
        \o << <<"cleanup", y, <<>>, <<>>, NoOut>> >>

InvocationsOfCall(y, files) ==
    LET groups == GroupBy(Sort(files), ByYear) IN
    Flatten([g \in 1..Len(groups) |-> InvocationsOfGroup(y, groups[g])])

\* the whole run on the listing files
InvocationsOfRun(files) ==
    Flatten([k \in 1..MaxYears |-> InvocationsOfCall(FirstYear + k - 1, files)])

\* for every listing in any order: pairs <<listing, invocations>>
RunsAnyOrder == { <<files, InvocationsOfRun(files)>> : files \in InputsAnyOrder }

Invocation(e) == <<e.op, e.yr, e.files, e.artifact, e.out>>

\* C12: with tools that behave the same way and an empty scratch directory
\* at the start, the run is a function of the SET of input files: the
\* sequence of invocations (operation, files, artifact path, output path)
\* a run performs is the one every run performs that was given the same
\* files in any other order, and the set of output paths at the end is the
\* same as well.
C12_OrderIndependent ==
    LET mine == (CHOOSE p \in RunsAnyOrder : p[1] = filenames)[2] IN
    /\ \A p \in RunsAnyOrder : Range(p[1]) = Range(filenames) => p[2] = mine
    /\ Len(log) <= Len(mine)
    /\ log # <<>> => Invocation(log[Len(log)]) = mine[Len(log)]
    /\ pc = "done" =>
          /\ Len(log) = Len(mine)
          /\ outputs = { mine[i][5] : i \in { j \in 1..Len(mine) : mine[j][1] = "l3bin" } }

\* C12 witness: a run has ended on three files that were supplied neither
\* in ascending nor in descending order, with at least two outputs.
C12_Witness ==
    /\ pc = "done"
    /\ Len(filenames) = 3
    /\ ~Ascending(filenames)
    /\ ~Ascending(<<filenames[3], filenames[2], filenames[1]>>)
    /\ Cardinality(outputs) >= 2
    /\ log # <<>>

\* ----------------------------------------------------------------- C13
\* the pairs of positions of s that carry the same key and have a position
\* with a different key between them
Separated(s, key) ==
    { p \in (1..Len(s)) \X (1..Len(s)) :
        /\ p[1] < p[2]
        /\ key[s[p[1]]] = key[s[p[2]]]
        /\ \E k \in (p[1] + 1)..(p[2] - 1) : key[s[k]] # key[s[p[1]]] }

GroupHolding(groups, file) ==
    CHOOSE g \in 1..Len(groups) : file \in Range(groups[g])

KeptApart(groups, input, key) ==
    LET s == Sort(input) IN
    \A p \in Separated(s, key) :
        GroupHolding(groups, s[p[1]]) # GroupHolding(groups, s[p[2]])

\* C13: two files with the same key that are separated in the sorted input
\* by a file with a different key are put in two different groups, by
\* year_process (key name[1:5]) and by process (key name[5:8]); in process
\* the two files have been fed to two different temporal invocations of
\* the call when its cleanup is reached.
C13_SeparatedKeysNotMerged ==
    /\ (pc = "year" /\ yi = 1) => KeptApart(yearly_files, filenames, ByYear)
    /\ (pc = "day" /\ di = 1) => KeptApart(daily_files, yearly_files[yi], ByDay)
    /\ pc = "cleanup" =>
          LET s == Sort(yearly_files[yi]) IN
          \A p \in Separated(s, ByDay) :
              \E m, n \in 1..Len(log) :
                  /\ m # n
                  /\ Temporal(m) /\ Temporal(n)
                  /\ BatchOf(m)[1] = year /\ BatchOf(m)[2] = yi
                  /\ BatchOf(n)[1] = year /\ BatchOf(n)[2] = yi
                  /\ s[p[1]] \in Range(log[m].files)
                  /\ s[p[2]] \notin Range(log[m].files)
                  /\ s[p[2]] \in Range(log[n].files)
                  /\ s[p[1]] \notin Range(log[n].files)

\* C13 witness: process has run the batches of a year-group in which a day
\* key occurs twice with another day key between, as three day-batches.
C13_Witness ==
    /\ pc = "cleanup"
    /\ Separated(Sort(yearly_files[yi]), ByDay) # {}
    /\ Len(daily_files) = 3
    /\ ByDay[daily_files[1][1]] = ByDay[daily_files[3][1]]

\* ----------------------------------------------------------------- C14
\* the newest log entry does not belong to a day-batch or year-group that
\* an earlier entry left behind
NotBack(lg) ==
    Len(lg) >= 2 =>
        LET a == lg[Len(lg) - 1]
            b == lg[Len(lg)]
        IN  /\ ~BatchBefore(<<b.yr, b.yg, b.dg>>, <<a.yr, a.yg, a.dg>>)
            /\ a.op = "l3bin" => <<b.yr, b.yg, b.dg>> # <<a.yr, a.yg, a.dg>>
            /\ a.op = "cleanup" => <<b.yr, b.yg>> # <<a.yr, a.yg>>

\* every year-group of every loop year was processed and cleaned up
AllCleanedUp(lg) ==
    LET groups == GroupBy(Sort(filenames), ByYear) IN
    \A y \in FirstYear..(FirstYear + MaxYears - 1) :
        \A g \in 1..Len(groups) :
            /\ \E i \in 1..Len(lg) :
                  lg[i].op = "cleanup" /\ lg[i].yr = y /\ lg[i].yg = g
            /\ \A k \in 1..Len(groups[g]) :
                  \E i \in 1..Len(lg) :
                      /\ lg[i].op = "l3bin" /\ lg[i].yr = y /\ lg[i].yg = g
                      /\ groups[g][k] \in Range(lg[i].files)

C15_DistinctArtifacts ==
    /\ (log # <<>> /\ Spatial(Len(log))) =>
          \A i \in 1..(Len(log) - 1) :
              ( /\ Spatial(i)
                /\ log[i].yr = log[Len(log)].yr
                /\ log[i].yg = log[Len(log)].yg
                /\ log[i].files # log[Len(log)].files )
              => log[i].artifact # log[Len(log)].artifact
    /\ \A i, j \in 1..Len(manifest.lines) :
          i # j => manifest.lines[i] # manifest.lines[j]

\* ----------------------------------------------------------------- C16
\* C16: the manifest a temporal invocation is about to read lists only
\* artifacts of its own day-batch: every line is a path of the scratch
\* directory whose file was written from a file of the current day-batch,
\* and is not the artifact path of any file of another day-batch of the
\* year-group or of another year-group; nothing of the manifest of an
\* earlier batch is left.
C16_ManifestOfOwnBatch ==
    pc = "l3bin" =>
        \A i \in 1..Len(manifest.lines) :
            LET line == manifest.lines[i] IN
            /\ line.dir = L2binOutput
            /\ line.name \in DOMAIN scratch
            /\ scratch[line.name] \in Range(daily_files[di])
            /\ \A k \in 1..Len(daily_files) :
                  k # di =>
                      \A f \in Range(daily_files[k]) : ArtifactName(f) # line.name
            /\ \A g \in 1..Len(yearly_files) :
                  g # yi =>
                      \A f \in Range(yearly_files[g]) : ArtifactName(f) # line.name

\* C16 witness: the manifest of the second day-batch was written, not
\* empty, while an artifact of the first day-batch (listed in the manifest
\* before) is still present in the scratch directory.
C16_Witness ==
    /\ pc = "l3bin"
    /\ di = 2
    /\ manifest.lines # <<>>
    /\ \E n \in DOMAIN scratch : scratch[n] \in Range(daily_files[1])

\* ----------------------------------------------------------------- C17
\* C17: within one year_process call (one loop year) the temporal
\* invocation of a day-batch is given an output path that no temporal
\* invocation of another day-batch of the call was given, the first 8
\* characters of the names of their first files being different; so the
\* call never overwrites an output it wrote before.
C17_DistinctOutputs ==
    (log # <<>> /\ Temporal(Len(log))) =>
        \A i \in 1..(Len(log) - 1) :
            (Temporal(i) /\ log[i].yr = log[Len(log)].yr) =>
                /\ log[i].out # log[Len(log)].out
                /\ Slice(Name(log[i].files[1]), 0, 8)
                      # Slice(Name(log[Len(log)].files[1]), 0, 8)

\* C17 witness: the third temporal invocation of a process call was made,
\* for a day-batch with the same day key as the first.
C17_Witness ==
    /\ pc = "day"
    /\ di = 4
    /\ log # <<>>
    /\ Temporal(Len(log))
    /\ ByDay[daily_files[1][1]] = ByDay[daily_files[3][1]]
    /\ Cardinality(outputs) = 3

\* ----------------------------------------------------------------- C18
\* the control flow is inside a process call
InProcess == pc \in {"day", "l2bin", "list", "l3bin", "cleanup"}

\* C18: year_process hands only non-empty year-groups to process, and
\* process gets at least one day-batch, all of them non-empty, so
\* filenames[0] and day_files[0] are defined; when the cleanup is reached
\* the scratch directory and the manifest exist, and the removal of the
\* manifest never fails; for an empty input no tool is invoked, nothing is
\* cleaned up and nothing is created.
C18_NonEmptyGroups ==
    /\ pc = "year" => \A g \in 1..Len(yearly_files) : yearly_files[g] # <<>>
    /\ InProcess =>
          /\ yi <= Len(yearly_files)
          /\ yearly_files[yi] # <<>>
          /\ Len(daily_files) >= 1
          /\ \A k \in 1..Len(daily_files) : daily_files[k] # <<>>
    /\ pc = "cleanup" => scratchExists /\ manifest.exists
    /\ pc # "crashed"
    /\ filenames = <<>> =>
          /\ log = <<>>
          /\ ~InProcess
          /\ ~scratchExists
          /\ ~manifest.exists
          /\ outDirs = {}

\* C18 witness: the cleanup of a process call is reached with the manifest
\* present although no artifact was produced and the manifest is empty.
C18_Witness ==
    /\ pc = "cleanup"
    /\ scratchExists
    /\ scratch = << >>
    /\ manifest.exists
    /\ manifest.lines = <<>>
    /\ Len(daily_files) >= 2
====
